---------------------------- MODULE Spec2Model ----------------------------
(***************************************************************************)
(* A model of msikma/autocrop: the CropDetector class (src/unnamed/        *)
(* part_000) with its colour helpers (src/util/color.js, src/util/math.js).*)
(*                                                                         *)
(* JavaScript numbers are modelled as exact extended rationals: a finite   *)
(* value is a pair <<n, d>> in lowest terms with d > 0, and the three      *)
(* special values of IEEE arithmetic are pairs with a zero denominator:    *)
(* NaN = <<0,0>>, +Infinity = <<1,0>>, -Infinity = <<-1,0>>.  -0 is the     *)
(* pair <<0,-1>>.  undefined only ever meets arithmetic in this code,      *)
(* where it behaves as NaN.                                                *)
(***************************************************************************)
EXTENDS Integers, Sequences, FiniteSets, TLC

VARIABLES
    imageRatio,   \* this.imageRatio
    isLoaded,     \* this.isLoaded
    filepath,     \* this.filepath
    data,         \* this.data (the decoded raw image) or NoData
    lastCall,     \* the public method called last, with its argument
    outcome,      \* how that call ended: a result or the error it threw
    reads,        \* the pixel coordinates _getPixelAt was asked for by that call
    rays,         \* the probe rays that call cast, in casting order
    decoded,      \* whether that call reached the image decoder (sharp)
    loadCalled,   \* whether any load method has been called on this detector
    rayHits,      \* argument of a direct normalizeRayHits evaluation
    pos           \* its return value

vars == <<imageRatio, isLoaded, filepath, data, lastCall, outcome, reads, rays,
          decoded, loadCalled, rayHits, pos>>

detectorVars == <<imageRatio, isLoaded, filepath, data, lastCall, outcome, reads,
                  rays, decoded, loadCalled>>

-----------------------------------------------------------------------------
(* JavaScript number arithmetic *)

NaN == <<0, 0>>
PosInf == <<1, 0>>
NegInf == <<-1, 0>>
NegZero == <<0, -1>>

Abs(i) == IF i < 0 THEN -i ELSE i
Sign(i) == IF i < 0 THEN -1 ELSE IF i > 0 THEN 1 ELSE 0

RECURSIVE GCD(_, _)
GCD(a, b) == IF b = 0 THEN a ELSE GCD(b, a % b)

\* The number n/d for integers n, d (d = 0 gives NaN or an infinity).
Rat(n, d) ==
    IF d = 0 THEN <<Sign(n), 0>>
    ELSE LET g == GCD(Abs(n), Abs(d))
         IN  <<Sign(d) * (n \div g), Abs(d) \div g>>

Num(i) == <<i, 1>>

\* -0 compares equal to 0; its sign shows only where it is divided by, and the
\* sums and products of this program are not
Unsigned(x) == IF x = NegZero THEN <<0, 1>> ELSE x
\* The sign of a number, of a zero included
SignOf(x) == IF x = NegZero \/ x[1] < 0 THEN -1 ELSE 1

IsNaN(x) == x = NaN
IsFinite(x) == x[2] # 0

\* x + y
AddUnsigned(x, y) ==
    IF IsNaN(x) \/ IsNaN(y) THEN NaN
    ELSE IF ~IsFinite(x) THEN (IF ~IsFinite(y) /\ y # x THEN NaN ELSE x)
    ELSE IF ~IsFinite(y) THEN y
    ELSE LET g == GCD(x[2], y[2])
         IN  Rat(x[1] * (y[2] \div g) + y[1] * (x[2] \div g), (x[2] \div g) * y[2])

Add(x, y) == AddUnsigned(Unsigned(x), Unsigned(y))

Neg(x) == <<-x[1], x[2]>>

\* x - y
Sub(x, y) == Add(x, Neg(y))

\* x * y
MulUnsigned(x, y) ==
    IF IsNaN(x) \/ IsNaN(y) THEN NaN
    ELSE IF ~IsFinite(x) \/ ~IsFinite(y) THEN <<Sign(x[1]) * Sign(y[1]), 0>>
    ELSE LET g1 == GCD(Abs(x[1]), y[2])
             g2 == GCD(Abs(y[1]), x[2])
         IN  <<(x[1] \div g1) * (y[1] \div g2), (x[2] \div g2) * (y[2] \div g1)>>

Mul(x, y) == MulUnsigned(Unsigned(x), Unsigned(y))

\* x / y.  A finite x over an infinity is a zero, and a non-zero x over a zero is
\* an infinity, each signed by the signs of both; 0 / 0 is NaN.
Div(x, y) ==
    IF IsNaN(x) \/ IsNaN(y) THEN NaN
    ELSE IF ~IsFinite(y)
    THEN (IF ~IsFinite(x) THEN NaN
          ELSE IF SignOf(x) * SignOf(y) < 0 THEN NegZero ELSE Num(0))
    ELSE IF y[1] = 0 THEN <<Sign(x[1]) * SignOf(y), 0>>
    ELSE IF x = NegZero THEN (IF SignOf(y) < 0 THEN Num(0) ELSE NegZero)
    ELSE IF ~IsFinite(x) THEN <<Sign(x[1]) * Sign(y[1]), 0>>
    ELSE Mul(x, <<Sign(y[1]) * y[2], Abs(y[1])>>)

\* x < y (false when either is NaN)
LtUnsigned(x, y) ==
    /\ ~IsNaN(x)
    /\ ~IsNaN(y)
    /\ IF IsFinite(x) /\ IsFinite(y) THEN x[1] * y[2] < y[1] * x[2]
       ELSE IF ~IsFinite(x) /\ ~IsFinite(y) THEN x[1] < y[1]
       ELSE IF ~IsFinite(x) THEN x[1] < 0
       ELSE y[1] > 0

Lt(x, y) == LtUnsigned(Unsigned(x), Unsigned(y))

Gt(x, y) == Lt(y, x)
\* x <= y and x >= y (false when either is NaN)
Le(x, y) == ~IsNaN(x) /\ ~IsNaN(y) /\ ~Lt(y, x)
Ge(x, y) == Le(y, x)

\* Math.max(x, y) and Math.min(x, y): NaN when either argument is NaN
MathMax(x, y) == IF IsNaN(x) \/ IsNaN(y) THEN NaN ELSE IF Lt(x, y) THEN y ELSE x
MathMin(x, y) == IF IsNaN(x) \/ IsNaN(y) THEN NaN ELSE IF Lt(y, x) THEN y ELSE x

\* Math.min(...xs): +Infinity for the empty list
RECURSIVE MathMinOf(_)
MathMinOf(xs) ==
    IF xs = <<>> THEN PosInf ELSE MathMin(Head(xs), MathMinOf(Tail(xs)))

\* Math.floor(x) and Math.round(x) (halves round up); NaN and infinities pass through
MathFloor(x) == IF IsFinite(x) /\ x # NegZero THEN Num(x[1] \div x[2]) ELSE x
MathRound(x) == MathFloor(Add(x, Rat(1, 2)))

\* Math.pow(x, e) for the only exponent the default settings produce, 1 / rayGamma = 1:
\* pow(x, 1) is x for every x, NaN and the infinities included.
MathPow(x, e) == IF e = Num(1) THEN x ELSE NaN

-----------------------------------------------------------------------------
(* src/util/math.js *)

clamp(value, min, max) == MathMax(min, MathMin(max, value))

clamp8(value) == clamp(value, Num(0), Num(255))

-----------------------------------------------------------------------------
(* src/util/color.js *)

calcBrightness(r, g, b) ==
    Add(Add(Mul(Rat(299, 1000), r), Mul(Rat(587, 1000), g)), Mul(Rat(114, 1000), b))

calcNormalizedColor(value, blackPoint, whitePoint, gammaValue) ==
    LET black == clamp8(blackPoint)
        white == clamp(clamp8(whitePoint), black, Num(255))
        adjusted == MathPow(Div(Sub(clamp8(value), black), Sub(white, black)),
                            Div(Num(1), gammaValue))
    IN  clamp8(Mul(adjusted, Num(255)))

calcNormalizedBrightness(r, g, b, blackPoint, whitePoint, gammaValue) ==
    calcBrightness(calcNormalizedColor(r, blackPoint, whitePoint, gammaValue),
                   calcNormalizedColor(g, blackPoint, whitePoint, gammaValue),
                   calcNormalizedColor(b, blackPoint, whitePoint, gammaValue))

-----------------------------------------------------------------------------
(* src/unnamed/part_000: module-level functions *)

SIDE_TOP == 1
SIDE_RIGHT == 2
SIDE_BOTTOM == 3
SIDE_LEFT == 4

\* The interpolation with the levels left unscaled (factor 1)
normalizeRayHitsUnscaled(hits) ==
    LET a == hits[1]
        b == hits[2]
        aPos == Num(a[1])
        aLevel == Div(a[2], Num(255))
        bPos == Num(b[1])
        bLevel == Div(b[2], Num(255))
        direction == Gt(aLevel, bLevel)
        diff == Sub(bPos, aPos)
        weight == Mul(bLevel, aLevel)
    IN  IF direction THEN Sub(bPos, Mul(diff, Sub(Num(1), weight)))
        ELSE Add(aPos, Mul(diff, Sub(Num(1), weight)))

\* normalizeRayHits(rayHits): rayHits is a sequence of <<depth, level>> pairs
normalizeRayHits(hits) ==
    LET a == hits[1]
        b == hits[2]
        aPos == Num(a[1])
        aLevel == Div(a[2], Num(255))
        bPos == Num(b[1])
        bLevel == Div(b[2], Num(255))
        direction == Gt(aLevel, bLevel)
        factor == IF direction THEN Div(Num(1), aLevel) ELSE Div(Num(1), bLevel)
        aLevelNormalized == Mul(aLevel, factor)
        bLevelNormalized == Mul(bLevel, factor)
        diff == Sub(bPos, aPos)
        weight == Mul(bLevelNormalized, aLevelNormalized)
    IN  IF direction THEN Sub(bPos, Mul(diff, Sub(Num(1), weight)))
        ELSE Add(aPos, Mul(diff, Sub(Num(1), weight)))

\* correctScanRatio(scanLength, imageRatio, canvasRatio, applyCorrection)
correctScanRatio(scanLength, imgRatio, canvasRatio, applyCorrection) ==
    IF ~applyCorrection \/ imgRatio = canvasRatio THEN scanLength
    ELSE LET ratioDifference == IF Gt(imgRatio, canvasRatio)
                                THEN Div(canvasRatio, imgRatio)
                                ELSE Div(imgRatio, canvasRatio)
         IN  Mul(scanLength, ratioDifference)

\* getSideLength(width, height, side): <<along the side, into the image>>
getSideLength(width, height, side) ==
    IF side = SIDE_TOP \/ side = SIDE_BOTTOM THEN <<width, height>>
    ELSE <<height, width>>

\* getSideScanLength(width, height, imageRatio, canvasRatio, side)
getSideScanLength(width, height, imgRatio, canvasRatio, side) ==
    IF side = SIDE_TOP \/ side = SIDE_BOTTOM
    THEN correctScanRatio(Num(width), imgRatio, canvasRatio, Lt(imgRatio, canvasRatio))
    ELSE correctScanRatio(Num(height), imgRatio, canvasRatio, Gt(imgRatio, canvasRatio))

-----------------------------------------------------------------------------
(* The decoded image: this.data = {data, info}.                            *)
(* info is width, height and channels.  The pixel buffer is described by   *)
(* what it holds instead of byte by byte: concentric one-pixel rings,      *)
(* counted from the canvas edge; the outermost `border` rings hold the     *)
(* colour `outer`, ring border + k holds profile[k + 1], and the last      *)
(* entry of profile fills the rest.  A colour is <<r, g, b>>, 0..255 each. *)

NoData == [undefined |-> TRUE]

Min2(i, j) == IF i < j THEN i ELSE j

\* The pixel stored at index idx (row-major) of the buffer
BufferPixel(img, idx) ==
    LET x == idx % img.width
        y == idx \div img.width
        ring == Min2(Min2(x, img.width - 1 - x), Min2(y, img.height - 1 - y))
    IN  IF ring < img.border THEN img.outer
        ELSE img.profile[Min2(ring - img.border + 1, Len(img.profile))]

\* An undefined channel value (a read past the end of the buffer)
Undefined == NaN

-----------------------------------------------------------------------------
(* class CropDetector *)

settings ==
    [rayAmount |-> Rat(25, 1000), rayAmountMin |-> Num(15), rayMargin |-> Rat(1, 10),
     rayMaxDepth |-> Rat(4, 10), rayThreshold |-> Num(15), rayBlack |-> Num(6),
     rayWhite |-> Num(60), rayGamma |-> Num(1)]

\* _getPixelAt(x, y): data.slice(offset, offset + channels).  The slice of a
\* Buffer is cut at the buffer's end; a missing element reads as undefined.
\* (x, y >= 0 at every call site, so offset >= 0.)
getPixelAt(img, x, y) ==
    LET offset == (x * img.channels) + (y * (img.width * img.channels))
    IN  IF offset >= img.width * img.height * img.channels
        THEN <<Undefined, Undefined, Undefined>>
        ELSE LET c == BufferPixel(img, offset \div img.channels)
             IN  <<Num(c[1]), Num(c[2]), Num(c[3])>>

\* The coordinate with the bottom side measured from height instead of height - 1
edgeCoordinateFromHeight(img, side, b, a) ==
    IF side = SIDE_TOP THEN <<b, a>>
    ELSE IF side = SIDE_BOTTOM THEN <<b, img.height - a>>
    ELSE IF side = SIDE_LEFT THEN <<a, b>>
    ELSE <<img.width - 1 - a, b>>

\* The coordinate _getPixelFromEdge(side, b, a) passes to _getPixelAt
edgeCoordinate(img, side, b, a) ==
    IF side = SIDE_TOP THEN <<b, a>>
    ELSE IF side = SIDE_BOTTOM THEN <<b, img.height - 1 - a>>
    ELSE IF side = SIDE_LEFT THEN <<a, b>>
    ELSE <<img.width - 1 - a, b>>

getPixelFromEdge(img, side, b, a) ==
    LET xy == edgeCoordinate(img, side, b, a) IN getPixelAt(img, xy[1], xy[2])

getPixelBrightnessAt(img, x, y) ==
    LET rgb == getPixelAt(img, x, y) IN calcBrightness(rgb[1], rgb[2], rgb[3])

\* The coordinates _getBgBrightness reads
bgCoordinates == {<<0, 0>>, <<1, 0>>, <<0, 1>>, <<1, 1>>}

getBgBrightness(img) ==
    LET sum == Add(Add(Add(Add(Num(0), getPixelBrightnessAt(img, 0, 0)),
                               getPixelBrightnessAt(img, 1, 0)),
                           getPixelBrightnessAt(img, 0, 1)),
                       getPixelBrightnessAt(img, 1, 1))
    IN  Div(sum, Num(4))

\* What `return null` gives _castEdgeRay's caller
Null == <<"null">>

\* One turn of _castEdgeRay's loop: the hit list after the sample at depth a
hitsAfterSample(hits, a, normalized) ==
    LET pushed == IF Gt(normalized, settings.rayThreshold)
                  THEN Append(hits, <<a, normalized>>) ELSE hits
    IN  IF Le(normalized, settings.rayThreshold) /\ Len(pushed) > 0 THEN <<>> ELSE pushed

\* The normalized brightness _castEdgeRay computes at depth a
normalizedAt(img, side, b, a, bgBrightness) ==
    LET pixel == getPixelFromEdge(img, side, b, a)
    IN  calcNormalizedBrightness(pixel[1], pixel[2], pixel[3],
                                 Add(settings.rayBlack, bgBrightness),
                                 settings.rayWhite, settings.rayGamma)

\* The sample of _castEdgeRay's loop at depth a: <<a, x, y, normalized>>
sampleAt(img, side, b, a, bgBrightness, xy) ==
    <<a, xy[1], xy[2], normalizedAt(img, side, b, a, bgBrightness)>>

\* The samples at depths 0 .. maxDepth - 1 of the ray at b.  A pixel read
\* changes nothing, so the samples are laid out first and the loop below walks
\* along them; the ray it returns holds the samples the loop reached.
samplesAlong(img, b, side, maxDepth, bgBrightness) ==
    SubSeq([k \in 1..maxDepth |->
               sampleAt(img, side, b, k - 1, bgBrightness,
                        edgeCoordinate(img, side, b, k - 1))], 1, maxDepth)

\* _castEdgeRay's loop from depth a on with the hit list hits.  The value is the
\* ray: what it returned (ret), the hits it interpolated and the samples it took.
RECURSIVE castEdgeRayFrom(_, _, _, _, _, _)
castEdgeRayFrom(along, b, side, maxDepth, a, hits) ==
    IF a >= maxDepth
    THEN [side |-> side, b |-> b, ret |-> Null, hits |-> <<>>, samples |-> along]
    ELSE LET hits2 == hitsAfterSample(hits, a, along[a + 1][4])
         IN  IF Len(hits2) >= 2
             THEN [side |-> side, b |-> b, ret |-> normalizeRayHits(hits2),
                   hits |-> hits2, samples |-> SubSeq(along, 1, a + 1)]
             ELSE castEdgeRayFrom(along, b, side, maxDepth, a + 1, hits2)

\* _castEdgeRay(b, side, maxDepth, bgBrightness)
castEdgeRay(img, b, side, maxDepth, bgBrightness) ==
    castEdgeRayFrom(samplesAlong(img, b, side, maxDepth, bgBrightness),
                    b, side, maxDepth, 0, <<>>)

\* The ray offsets _findEdge computes from the scan length of a side
scanOffsets(sideLength, scanLength, offsetStart) ==
    LET offsetEnd == Sub(Num(sideLength[1]), offsetStart)
        rayNumber == MathMax(MathFloor(Mul(scanLength, settings.rayAmount)),
                             settings.rayAmountMin)
    IN  [sideLength |-> sideLength, scanLength |-> scanLength,
         offsetStart |-> offsetStart, offsetEnd |-> offsetEnd,
         rayNumber |-> rayNumber, rayStep |-> Div(offsetEnd, rayNumber),
         maxDepth |-> MathFloor(Mul(Num(sideLength[2]), settings.rayMaxDepth))]

scanOffsetStart(sideLength, scanLength) ==
    Add(Mul(scanLength, settings.rayMargin),
        Div(Sub(Num(sideLength[1]), scanLength), Num(2)))

scanLengths(sideLength, scanLength) ==
    scanOffsets(sideLength, scanLength, scanOffsetStart(sideLength, scanLength))

\* The ratio _findEdge scans for: this.imageRatio, or the canvas ratio when it is 0
effectiveRatio(imgRatioField, canvasRatio) ==
    IF imgRatioField # Num(0) THEN imgRatioField ELSE canvasRatio

\* The scan geometry _findEdge computes for one side
scanGeometry(img, imgRatioField, side) ==
    LET canvasRatio == Div(Num(img.width), Num(img.height))
    IN  scanLengths(getSideLength(img.width, img.height, side),
                    getSideScanLength(img.width, img.height,
                                      effectiveRatio(imgRatioField, canvasRatio),
                                      canvasRatio, side))

\* The coordinate along the side of ray n
rayPosition(geo, n) == MathRound(Add(Mul(Num(n), geo.rayStep), geo.offsetStart))

\* The values of a sequence of rays that are not null
RECURSIVE notNull(_)
notNull(rs) ==
    IF rs = <<>> THEN <<>>
    ELSE IF Head(rs).ret = Null THEN notNull(Tail(rs))
    ELSE <<Head(rs).ret>> \o notNull(Tail(rs))

\* new Array(rayNumber).fill().map((_, n) => ...): the rays 0 .. rayNumber - 1
\* of a side, in order
castRays(img, geo, side, bgBrightness) ==
    SubSeq([k \in 1..geo.rayNumber[1] |->
               castEdgeRay(img, rayPosition(geo, k - 1)[1], side, geo.maxDepth[1],
                           bgBrightness)], 1, geo.rayNumber[1])

\* .filter(n => n !== null) and Math.min(...sideEdges)
sideEdge(cast) == [edge |-> MathMinOf(notNull(cast)), rays |-> cast]

findEdgeWith(img, side, bgBrightness, geo) ==
    sideEdge(castRays(img, geo, side, bgBrightness))

\* _findEdge(side, bgBrightness): the side's edge and the rays cast for it
findEdge(img, imgRatioField, side, bgBrightness) ==
    findEdgeWith(img, side, bgBrightness, scanGeometry(img, imgRatioField, side))

\* _findEdges(bgBrightness): the four sides, in the order the code casts them
findEdges(img, imgRatioField, bgBrightness) ==
    [top |-> findEdge(img, imgRatioField, SIDE_TOP, bgBrightness),
     right |-> findEdge(img, imgRatioField, SIDE_RIGHT, bgBrightness),
     bottom |-> findEdge(img, imgRatioField, SIDE_BOTTOM, bgBrightness),
     left |-> findEdge(img, imgRatioField, SIDE_LEFT, bgBrightness)]

\* The corrected size of the result, from the cropped ratio
correctedWidth(img, imgRatioField, croppedRatio) ==
    IF Gt(imgRatioField, croppedRatio)
    THEN Mul(Num(img.width), Div(imgRatioField, croppedRatio))
    ELSE Num(img.width)

correctedHeight(img, imgRatioField, croppedRatio) ==
    IF Gt(imgRatioField, croppedRatio)
    THEN Num(img.height)
    ELSE Mul(Num(img.height), Div(imgRatioField, croppedRatio))

\* The object detectCropBox() returns once the edges are found
cropBoxOf(img, imgRatioField, bgBrightness, edges, croppedWidth, croppedHeight, croppedRatio) ==
    [source |-> [width |-> Num(img.width), height |-> Num(img.height),
                 aspectRatio |-> Div(Num(img.width), Num(img.height))],
     cropped |-> [width |-> croppedWidth, height |-> croppedHeight,
                  aspectRatio |-> croppedRatio,
                  correctedWidth |-> correctedWidth(img, imgRatioField, croppedRatio),
                  correctedHeight |-> correctedHeight(img, imgRatioField, croppedRatio),
                  edges |-> edges],
     target |-> [aspectRatio |-> imgRatioField],
     image |-> [backgroundBrightness |-> bgBrightness]]

cropBoxSized(img, imgRatioField, bgBrightness, edges, croppedWidth, croppedHeight) ==
    cropBoxOf(img, imgRatioField, bgBrightness, edges, croppedWidth, croppedHeight,
              Div(croppedWidth, croppedHeight))

cropBox(img, imgRatioField, bgBrightness, edges) ==
    cropBoxSized(img, imgRatioField, bgBrightness, edges,
                 Sub(Sub(Num(img.width), edges.left), edges.right),
                 Sub(Sub(Num(img.height), edges.top), edges.bottom))

\* The coordinates the samples of a sequence of rays were read at
sampleCoordinates(rs) ==
    UNION {{<<rs[i].samples[j][2], rs[i].samples[j][3]>> : j \in DOMAIN rs[i].samples} :
           i \in DOMAIN rs}

\* What one detectCropBox() did: its result, the rays cast, the coordinates read
detectionRecord(result, cast) ==
    [result |-> result, rays |-> cast, reads |-> bgCoordinates \cup sampleCoordinates(cast)]

detectionOf(img, imgRatioField, bgBrightness, found) ==
    detectionRecord(cropBox(img, imgRatioField, bgBrightness,
                            [top |-> found.top.edge, right |-> found.right.edge,
                             bottom |-> found.bottom.edge, left |-> found.left.edge]),
                    found.top.rays \o found.right.rays \o found.bottom.rays
                        \o found.left.rays)

detectionWith(img, imgRatioField, bgBrightness) ==
    detectionOf(img, imgRatioField, bgBrightness,
                findEdges(img, imgRatioField, bgBrightness))

\* detectCropBox() on a loaded detector
detection(img, imgRatioField) ==
    detectionWith(img, imgRatioField, getBgBrightness(img))

\* detectCropBox() without its guard
neverThrowsNotLoaded(loaded) == FALSE

\* The guard of detectCropBox(): if (!this.isLoaded) throw
throwsNotLoaded(loaded) == ~loaded

Threw(message) == [kind |-> "error", error |-> message]
Resolved == [kind |-> "resolved"]
Returned(result) == [kind |-> "result", result |-> result]

-----------------------------------------------------------------------------
(* The image decoder (sharp) and the inputs of the load methods *)

\* A buffer or a file holds an encoded image or bytes that are none
Encoded(img) == [image |-> img]
Garbage == [garbage |-> TRUE]

\* sharp(input).raw().toBuffer(): the decoded image, or a rejection
decodes(input) == "image" \in DOMAIN input

\* A base64 string is a sequence of characters.  One element may stand for a run
\* of base64 characters: "#k" is the base64 text of the k-th encoded image.
DataColon == <<"d", "a", "t", "a", ":">>
SemiBase64Comma == <<";", "b", "a", "s", "e", "6", "4", ",">>
LineTerminators == {"\n", "\r"}

\* base64.match(/^data:(.+?);base64,/): the length of the match (mime[0].length),
\* 0 for null.  `.+?` is the shortest non-empty run without a line terminator
\* that ";base64," follows.
HasAt(s, i, lit) == i + Len(lit) - 1 <= Len(s) /\ SubSeq(s, i, i + Len(lit) - 1) = lit

matchAnchoredAt(s, start) ==
    IF ~HasAt(s, start, DataColon) THEN 0
    ELSE LET from == start + Len(DataColon)
             ends == {k \in from + 1..Len(s) :
                         /\ HasAt(s, k, SemiBase64Comma)
                         /\ \A j \in from..k - 1 : s[j] \notin LineTerminators}
         IN  IF ends = {} THEN 0
             ELSE (CHOOSE k \in ends : \A k2 \in ends : k <= k2) + Len(SemiBase64Comma) - start

\* The match of the pattern without its ^: the first match at any index
matchDataUriAnywhere(s) ==
    LET starts == {i \in 1..Len(s) : matchAnchoredAt(s, i) > 0}
    IN  IF starts = {} THEN 0
        ELSE matchAnchoredAt(s, CHOOSE i \in starts : \A i2 \in starts : i <= i2)


matchDataUri(s) == matchAnchoredAt(s, 1)

-----------------------------------------------------------------------------
(* Inputs *)

MaxSideUnits == 2      \* square canvases have sides 10, .. 10 * MaxSideUnits, and 8
MaxBorder == 3         \* border widths 0 .. MaxBorder
MaxProfile == 2        \* ring profiles of 1 .. MaxProfile colours
MaxPos == 3            \* hit depths 0 .. MaxPos of a direct normalizeRayHits call

Gray(v) == <<v, v, v>>
Black == Gray(0)
White == Gray(255)

Canvas(w, h, ch, border, outer, profile) ==
    [width |-> w, height |-> h, channels |-> ch, border |-> border,
     outer |-> outer, profile |-> profile]

\* Square canvases with a uniform border around a uniform interior: black around
\* white, and a few white around black; the 100 x 100 canvas with the 10 pixel
\* border in both colourings
SquareSides == {10 * k : k \in 1..MaxSideUnits} \cup {8}

BorderedSquares ==
    {Canvas(n, n, 3, w, Black, <<White>>) : n \in SquareSides, w \in 0..MaxBorder}
    \cup {Canvas(10, 10, 3, w, White, <<Black>>) : w \in 1..2}
    \cup {Canvas(100, 100, 3, 10, Black, <<White>>), Canvas(100, 100, 3, 10, White, <<Black>>)}

\* Canvases whose rings inside the border follow a colour profile
ProfileColours == {Gray(20), Gray(200)}
Profiles == UNION {[1..k -> ProfileColours] : k \in 1..MaxProfile}

ProfiledCanvases ==
    {Canvas(10, 10, 4, 1, o, p) : o \in {Black, Gray(100)}, p \in Profiles}
    \cup {Canvas(10, 10, 4, 1, Gray(100), <<Gray(200), Gray(131), Gray(200)>>),
          Canvas(10, 10, 3, 2, Black, <<<<255, 0, 0>>>>)}

\* Small and oblong canvases, black around white
Oblongs ==
    {Canvas(w, h, 3, b, Black, <<White>>) : w \in {1, 8, 16}, h \in {1, 3, 9}, b \in {0, 1}}

DetectImages == BorderedSquares \cup ProfiledCanvases \cup Oblongs

Tiny == Canvas(2, 2, 3, 0, Gray(100), <<Gray(100)>>)
Small == Canvas(3, 3, 3, 1, Black, <<White>>)
LifecycleImages == {Tiny, Small}

\* new CropDetector({aspectRatio}): 0 when none is given
Ratios == {Num(0), Num(1), Rat(4, 3)}

Buffers(imgs) == {Encoded(img) : img \in imgs} \cup {Garbage}

\* The files on the disk, by path
Files == [a |-> Encoded(Small), b |-> Garbage]
NoPath == "undefined"

\* Buffer.from(data, 'base64') of the text that follows the match
base64Buffer(text) ==
    IF text = <<"#1">> THEN Encoded(Tiny)
    ELSE IF text = <<"#2">> THEN Encoded(Small)
    ELSE Garbage

Base64Strings ==
    {pre \o mime \o sep \o text :
        pre \in {<<>>, DataColon, <<"x">> \o DataColon},
        mime \in {<<>>, <<"a">>, <<"a", "\n">>},
        sep \in {SemiBase64Comma, <<";", "b", "a", "s", "e", "6", "4">>},
        text \in {<<"#1">>, <<"Q">>}}
    \cup {<<>>, DataColon \o <<"i", "/", "p">> \o SemiBase64Comma \o <<"#2">>,
          DataColon \o SemiBase64Comma \o <<"a">> \o SemiBase64Comma \o <<"#1">>}

Levels == {Num(16), Num(60), Rat(255, 2), Num(240), Num(255)}

-----------------------------------------------------------------------------
(* The detector *)

Init ==
    /\ imageRatio \in Ratios
    /\ isLoaded = FALSE
    /\ filepath = NoPath
    /\ data = NoData
    /\ lastCall = [op |-> "constructor"]
    /\ outcome = Resolved
    /\ reads = {}
    /\ rays = <<>>
    /\ decoded = FALSE
    /\ loadCalled = FALSE
    /\ rayHits = <<>>
    /\ pos = Null

\* loadImageBuffer(buffer), and the tail of loadImageBase64: the three
\* assignments run together after the last await, or not at all
loadBuffer(buffer, path) ==
    /\ decoded' = TRUE
    /\ IF decodes(buffer)
       THEN /\ isLoaded' = TRUE
            /\ filepath' = path
            /\ data' = buffer.image
            /\ outcome' = Resolved
       ELSE /\ UNCHANGED <<isLoaded, filepath, data>>
            /\ outcome' = Threw("DecodeError")

LoadImageBuffer(imgs) ==
    \E buffer \in Buffers(imgs) :
        /\ lastCall' = [op |-> "loadImageBuffer", arg |-> buffer]
        /\ loadCalled' = TRUE
        /\ loadBuffer(buffer, "<buffer>")
        /\ reads' = {}
        /\ rays' = <<>>
        /\ UNCHANGED <<imageRatio, rayHits, pos>>

LoadImageFile ==
    \E path \in DOMAIN Files \cup {"missing"} :
        /\ lastCall' = [op |-> "loadImageFile", arg |-> path]
        /\ loadCalled' = TRUE
        /\ loadBuffer(IF path \in DOMAIN Files THEN Files[path] ELSE Garbage, path)
        /\ reads' = {}
        /\ rays' = <<>>
        /\ UNCHANGED <<imageRatio, rayHits, pos>>

LoadImageBase64 ==
    \E base64 \in Base64Strings :
        LET mime == matchDataUri(base64)
        IN  /\ lastCall' = [op |-> "loadImageBase64", arg |-> base64]
            /\ loadCalled' = TRUE
            /\ IF mime = 0
               THEN /\ outcome' = Threw("Not a base64 image string.")
                    /\ decoded' = FALSE
                    /\ UNCHANGED <<isLoaded, filepath, data>>
               ELSE loadBuffer(base64Buffer(SubSeq(base64, mime + 1, Len(base64))),
                               "<buffer>")
            /\ reads' = {}
            /\ rays' = <<>>
            /\ UNCHANGED <<imageRatio, rayHits, pos>>

returnDetection(d) ==
    /\ outcome' = Returned(d.result)
    /\ reads' = d.reads
    /\ rays' = d.rays

DetectCropBox ==
    /\ lastCall' = [op |-> "detectCropBox"]
    /\ decoded' = FALSE
    /\ IF throwsNotLoaded(isLoaded)
       THEN /\ outcome' = Threw("No image loaded.")
            /\ reads' = {}
            /\ rays' = <<>>
       ELSE IF data = NoData
       THEN \* const {info} = this.data: undefined cannot be destructured
            /\ outcome' = Threw("TypeError")
            /\ reads' = {}
            /\ rays' = <<>>
       ELSE returnDetection(detection(data, imageRatio))
    /\ UNCHANGED <<imageRatio, isLoaded, filepath, data, loadCalled, rayHits, pos>>

Next ==
    \/ LoadImageBase64
    \/ LoadImageBuffer(LifecycleImages)
    \/ LoadImageFile
    \/ DetectCropBox

Spec == Init /\ [][Next]_vars

\* The detection algorithm over the larger set of images
NextDetect ==
    \/ LoadImageBuffer(DetectImages)
    \/ DetectCropBox

SpecDetect == Init /\ [][NextDetect]_vars

-----------------------------------------------------------------------------
(* normalizeRayHits called on its own *)

InitHits ==
    /\ Init
    /\ imageRatio = Num(0)

ChooseHits ==
    /\ rayHits = <<>>
    /\ \/ \E a0 \in 0..MaxPos, d \in 1..2, l0 \in Levels, l1 \in Levels :
              rayHits' = <<<<a0, l0>>, <<a0 + d, l1>>>>
       \/ rayHits' = <<<<5, Num(60)>>, <<6, Num(240)>>>>
    /\ UNCHANGED <<detectorVars, pos>>

NormalizeRayHits ==
    /\ rayHits # <<>>
    /\ pos' = normalizeRayHits(rayHits)
    /\ UNCHANGED <<detectorVars, rayHits>>

NextHits == ChooseHits \/ NormalizeRayHits

SpecHits == InitHits /\ [][NextHits]_vars

-----------------------------------------------------------------------------
(* Properties of the lifecycle: Spec *)

\* C1: on a detector on which no load call has ever been made, detectCropBox()
\* fails with the not-loaded error and has read no pixel of the image buffer.
C1_NotLoadedFailsBeforePixels ==
    (lastCall.op = "detectCropBox" /\ ~loadCalled)
        => /\ outcome = Threw("No image loaded.")
           /\ reads = {}
           /\ rays = <<>>

C1_DetectBeforeAnyLoad ==
    /\ lastCall.op = "detectCropBox"
    /\ ~loadCalled
    /\ outcome.kind = "error"

\* A string starts with a literal data:<mime>;base64, prefix: "data:", a
\* non-empty <mime>, then ";base64,"
startsWithDataUriPrefix(s) ==
    /\ HasAt(s, 1, DataColon)
    /\ \E k \in Len(DataColon) + 2..Len(s) : HasAt(s, k, SemiBase64Comma)

\* C7: loadImageBase64 of a string that does not start with a literal
\* data:<mime>;base64, prefix fails with the invalid-encoding error before any
\* decode attempt, and leaves the loaded flag, the stored image and the file
\* path as they were before the call.
C7_InvalidEncodingLeavesState ==
    [][(lastCall'.op = "loadImageBase64" /\ ~startsWithDataUriPrefix(lastCall'.arg))
          => /\ outcome' = Threw("Not a base64 image string.")
             /\ decoded' = FALSE
             /\ isLoaded' = isLoaded
             /\ data' = data
             /\ filepath' = filepath]_vars

\* A detector that holds an image rejected a string without the prefix
C7_RejectedWhileLoaded ==
    /\ lastCall.op = "loadImageBase64"
    /\ ~startsWithDataUriPrefix(lastCall.arg)
    /\ lastCall.arg # <<>>
    /\ outcome = Threw("Not a base64 image string.")
    /\ isLoaded
    /\ data = Small

-----------------------------------------------------------------------------
(* Properties of normalizeRayHits: SpecHits *)

\* C8: for two hits (a0, l0), (a1, l1) with a0 < a1 and positive levels the
\* interpolated position lies in [a0, a1]; it is a1 - (a1 - a0) * (1 - l1 / l0)
\* when l0 > l1 and a0 + (a1 - a0) * (1 - l0 / l1) otherwise; for the hits
\* (5, 60), (6, 240) it is 5.75.
C8_InterpolationBounded ==
    (pos # Null /\ rayHits # <<>>)
        => LET a0 == rayHits[1][1]
               l0 == rayHits[1][2]
               a1 == rayHits[2][1]
               l1 == rayHits[2][2]
               diff == Num(a1 - a0)
           IN  /\ Le(Num(a0), pos)
               /\ Le(pos, Num(a1))
               /\ pos = IF Gt(l0, l1)
                        THEN Sub(Num(a1), Mul(diff, Sub(Num(1), Div(l1, l0))))
                        ELSE Add(Num(a0), Mul(diff, Sub(Num(1), Div(l0, l1))))
               /\ (rayHits = <<<<5, Num(60)>>, <<6, Num(240)>>>> => pos = Rat(23, 4))

C8_InterpolatedScenario ==
    /\ rayHits = <<<<5, Num(60)>>, <<6, Num(240)>>>>
    /\ pos = Rat(23, 4)

-----------------------------------------------------------------------------
(* Properties of the detection: SpecDetect *)

Sides == {SIDE_TOP, SIDE_RIGHT, SIDE_BOTTOM, SIDE_LEFT}

hasResult == outcome.kind = "result"

edgeOf(side) ==
    LET edges == outcome.result.cropped.edges
    IN  IF side = SIDE_TOP THEN edges.top
        ELSE IF side = SIDE_RIGHT THEN edges.right
        ELSE IF side = SIDE_BOTTOM THEN edges.bottom
        ELSE edges.left

raysOf(side) == {i \in DOMAIN rays : rays[i].side = side}

allEdgesFound == \A side \in Sides : IsFinite(edgeOf(side))

\* Every pixel the call read lies inside the image
readsInBounds ==
    \A xy \in reads :
        /\ 0 <= xy[1] /\ xy[1] < data.width
        /\ 0 <= xy[2] /\ xy[2] < data.height

\* C2: if every ray cast on a side returned "not found", detectCropBox() fails;
\* it returns no result that holds an edge for that side.  Stated of the runs
\* that read inside the image only.
C2_NotFoundFailsExplicitly ==
    (hasResult /\ readsInBounds) => \A side \in Sides : \E i \in raysOf(side) : rays[i].ret # Null

\* A square canvas with a uniform border of width at least 1 around a uniform interior
borderedSquare(img, outer, inner) ==
    /\ img.width = img.height
    /\ img.border >= 1
    /\ img.outer = outer
    /\ img.profile = <<inner>>

within1(x, w) == Le(Num(w - 1), x) /\ Le(x, Num(w + 1))

\* What detectCropBox() is to return on a bordered square
borderDetected ==
    /\ \A side \in Sides : within1(edgeOf(side), data.border)
    /\ outcome.result.cropped.aspectRatio = Num(1)
    /\ (data.width = 100 /\ data.border = 10 /\ imageRatio = Num(1))
           => /\ \A side \in Sides : edgeOf(side) = Num(10)
              /\ outcome.result.cropped.width = Num(80)
              /\ outcome.result.cropped.height = Num(80)

\* C3 as stated: on a square canvas with a uniform bright border of width W
\* around a uniformly dark interior, detectCropBox() returns four edges within 1
\* of W and a cropped ratio equal to the interior's, and no edge is not found;
\* on the 100 x 100 canvas with the 10 pixel white border, black interior and
\* target ratio 1 the edges are 10 and the cropped size is 80 x 80.
C3_BrightBorderDetected ==
    (lastCall.op = "detectCropBox" /\ isLoaded /\ borderedSquare(data, White, Black))
        => hasResult /\ borderDetected

\* C3: on a square canvas of side N with a uniform black border of width W,
\* 1 <= W and W + 2 <= floor(0.4 * N), around a uniformly white interior,
\* detectCropBox() returns four edges within 1 of W and a cropped ratio equal to
\* the interior's, and no edge is not found; on the 100 x 100 canvas with the 10
\* pixel black border, white interior and target ratio 1 the edges are 10 and
\* the cropped size is 80 x 80.
C3_DarkBorderDetected ==
    (/\ lastCall.op = "detectCropBox"
     /\ isLoaded
     /\ borderedSquare(data, Black, White)
     /\ 5 * (data.border + 2) <= 2 * data.width)
        => hasResult /\ borderDetected

C3_DarkBorderScenario ==
    /\ hasResult
    /\ data = Canvas(100, 100, 3, 10, Black, <<White>>)
    /\ imageRatio = Num(1)
    /\ \A side \in Sides : edgeOf(side) = Num(10)

\* C4: in every result each edge lies in [0, the canvas dimension it is measured
\* against], and the cropped width = width - left - right and the cropped height
\* = height - top - bottom are at least 0.  Stated of the runs that read inside
\* the image only.
C4_EdgesWithinCanvas ==
    (hasResult /\ readsInBounds)
        => LET r == outcome.result
               e == r.cropped.edges
           IN  /\ Ge(e.top, Num(0)) /\ Le(e.top, r.source.height)
               /\ Ge(e.bottom, Num(0)) /\ Le(e.bottom, r.source.height)
               /\ Ge(e.left, Num(0)) /\ Le(e.left, r.source.width)
               /\ Ge(e.right, Num(0)) /\ Le(e.right, r.source.width)
               /\ r.cropped.width = Sub(Sub(r.source.width, e.left), e.right)
               /\ r.cropped.height = Sub(Sub(r.source.height, e.top), e.bottom)
               /\ Ge(r.cropped.width, Num(0))
               /\ Ge(r.cropped.height, Num(0))

\* C5: in every result whose edges were all found, for a target ratio that is
\* positive or unset, correctedWidth >= the source width and correctedHeight >=
\* the source height; both equal the source when the target ratio is the
\* cropped ratio.
C5_CorrectedNeverShrinks ==
    (hasResult /\ allEdgesFound)
        => LET r == outcome.result
           IN  /\ Ge(r.cropped.correctedWidth, r.source.width)
               /\ Ge(r.cropped.correctedHeight, r.source.height)
               /\ (r.target.aspectRatio = r.cropped.aspectRatio
                      => /\ r.cropped.correctedWidth = r.source.width
                         /\ r.cropped.correctedHeight = r.source.height)

\* The effective black and white points of a run with background brightness bg
effectiveBlack(bg) == clamp8(Add(settings.rayBlack, bg))
effectiveWhite(bg) == clamp(clamp8(settings.rayWhite), effectiveBlack(bg), Num(255))

\* C6: a run whose effective black point is not strictly below its effective
\* white point fails; it returns no result.  Stated of the runs that read inside
\* the image only.
C6_FailsFastWithoutContrast ==
    (lastCall.op = "detectCropBox" /\ isLoaded /\ hasResult /\ readsInBounds
         /\ IsFinite(outcome.result.image.backgroundBrightness))
        => Lt(effectiveBlack(outcome.result.image.backgroundBrightness),
              effectiveWhite(outcome.result.image.backgroundBrightness))

above(sample) == Gt(sample[4], settings.rayThreshold)

\* The samples at depths a and a + 1 are both above the threshold
adjacentPair(samples, a) ==
    a + 2 <= Len(samples) /\ above(samples[a + 1]) /\ above(samples[a + 2])

\* C9: a ray that returns a value interpolates two hits at adjacent depths a and
\* a + 1, the first adjacent pair of samples above the threshold along the ray;
\* a ray that returns "not found" has no such pair below maxDepth.
C9_HitsAreAdjacent ==
    \A i \in DOMAIN rays :
        LET ray == rays[i]
        IN  IF ray.ret = Null
            THEN \A a \in 0..Len(ray.samples) : ~adjacentPair(ray.samples, a)
            ELSE /\ Len(ray.hits) = 2
                 /\ ray.hits[2][1] = ray.hits[1][1] + 1
                 /\ adjacentPair(ray.samples, ray.hits[1][1])
                 /\ \A a \in 0..ray.hits[1][1] - 1 : ~adjacentPair(ray.samples, a)

\* C10: with default settings every pixel detectCropBox() reads, of the
\* background sample and of every ray, is at 0 <= x < width and 0 <= y < height.
C10_ReadsWithinImage ==
    (hasResult /\ imageRatio = Num(0)) => readsInBounds

=============================================================================
